---- MODULE Spec2Model ----
(***************************************************************************)
(* A model of js/home.js: the page script that fetches trending media      *)
(* from TMDB, renders poster lists, drives the details modal with its      *)
(* embedded player, and runs the search overlay.                           *)
(*                                                                         *)
(* Strings built with template literals are modelled as sequences of their *)
(* parts, so that a URL or an alt text is what the code concatenates.      *)
(* A field that a payload lacks (undefined / null) is Null.                *)
(***************************************************************************)
EXTENDS Integers, Sequences, FiniteSets, TLC

\* ------------------------------------------------------------------ bounds
MaxListLen == 2      \* longest item list handed to displayList
MaxPageLen == 2      \* longest results array of one trending page
MaxTrendLen == 1     \* longest results array of a bootstrap response
MaxQueryLen == 2     \* longest text typed into the search field
MaxInFlight == 2     \* most searchTMDB requests awaiting their response

\* ------------------------------------------------------- program constants
IMG_URL == "https://image.tmdb.org/t/p/original"
BASE_URL == "https://api.themoviedb.org/3"
KEY == "420dd26414b8bcb319a5d49051b6ac25"
MAX_PAGES == 3
ANIME_GENRE_ID == 16

\* a string field the payload lacks (null / undefined)
Null == "null"
\* the null object reference
NoItem == [null |-> TRUE]
\* an optional array: Absent, or Present(array)
Absent == <<>>
Present(a) == <<a>>

\* JavaScript truthiness of a string-or-missing field.
Truthy(v) == v # Null /\ v # ""

\* a || b on string-or-missing fields
Or(a, b) == IF Truthy(a) THEN a ELSE b

SeqsUpTo(S, n) == UNION {[1..k -> S] : k \in 0..n}

\* result arrays of at most n items, no item twice (TMDB lists an item once)
Arrays(S, n) == {s \in SeqsUpTo(S, n) : \A i, j \in DOMAIN s : i # j => s[i] # s[j]}

\* ------------------------------------------------------------- media items
Item(id, title, name, poster, backdrop, mtype, lang, genres, vote, overview) ==
  [id |-> id, title |-> title, name |-> name, poster_path |-> poster,
   backdrop_path |-> backdrop, media_type |-> mtype, original_language |-> lang,
   genre_ids |-> genres, vote_average |-> vote, overview |-> overview]

\* movies
M1 == Item(1, "Alpha", Null, "/m1p.jpg", "/m1b.jpg", "movie", "en", Present(<<28>>), 7, "A heist.")
M2 == Item(2, "Beta", Null, Null, "/m2b.jpg", Null, "en", Present(<<18>>), 10, "")
M3 == Item(3, Null, "Gamma", "/m3p.jpg", Null, "movie", "fr", Present(<<35>>), 0, Null)
M4 == Item(12, "Lambda", Null, "/m4p.jpg", "/m4b.jpg", Null, "en", Present(<<28>>), 3, "A chase.")
\* TV series
T1 == Item(4, Null, "Delta", "/t1p.jpg", "/t1b.jpg", "tv", "ja", Present(<<16, 10759>>), 8, "Ninjas.")
T2 == Item(5, Null, "Epsilon", "/t2p.jpg", Null, Null, "ja", Present(<<16>>), 5, "Robots.")
T3 == Item(6, Null, "Zeta", "/t3p.jpg", "/t3b.jpg", "tv", "ja", Present(<<35>>), 6, "Comedy.")
T4 == Item(7, Null, "Eta", "/t4p.jpg", "/t4b.jpg", "tv", "en", Present(<<16>>), 9, "Cartoon.")
T5 == Item(8, Null, "Theta", Null, "/t5b.jpg", "tv", "ja", Absent, 3, "Drama.")
\* search-only payloads
P1 == Item(9, Null, "Iota", Null, Null, "person", Null, Absent, 0, Null)
X1 == Item(10, "Kappa", Null, Null, Null, "movie", "en", Present(<<18>>), 4, "No images.")
X2 == Item(11, Null, Null, "/x2p.jpg", Null, "tv", "en", Present(<<18>>), 4, "No title.")

\* ---------------------------------------------------------------- state
VARIABLES
  currentItem,         \* let currentItem
  modal_display,       \* #modal style.display
  modal_title,         \* #modal-title textContent
  modal_description,   \* #modal-description textContent
  modal_image,         \* #modal-image [src, alt]
  modal_rating,        \* #modal-rating innerHTML
  modal_video_src,     \* #modal-video src
  server_value,        \* #server value
  body_overflow,       \* document.body.style.overflow
  search_modal_display,\* #search-modal style.display
  search_input,        \* #search-input value, a sequence of characters
  search_results,      \* #search-results children
  inflight,            \* searchTMDB activations suspended at their fetch, in issue order
  lastQuery,           \* the query of the most recently issued search request
  lists,               \* children of #movies-list, #tvshows-list, #anime-list
  banner,              \* #banner backgroundImage and #banner-title textContent
  handlers,            \* the names init has assigned on window
  pc,                  \* where init is
  promises,            \* the three promises init joins
  page,                \* fetchTrendingAnime's loop variable
  allResults,          \* fetchTrendingAnime's accumulator
  requests,            \* the URLs requested during the bootstrap, in order
  responses,           \* the responses to the two fetchTrending requests
  pageResponses,       \* the responses to fetchTrendingAnime's requests, in page order
  passed,              \* the item list most recently passed to displayList, per container id
  lastOp               \* the handler that ran last

modalVars == <<currentItem, modal_display, modal_title, modal_description, modal_image,
               modal_rating, modal_video_src, server_value>>
searchVars == <<search_modal_display, search_input, search_results, inflight, lastQuery>>
renderVars == <<lists, banner, passed>>
bootVars == <<handlers, pc, promises, page, allResults, requests, responses, pageResponses>>
vars == <<modalVars, searchVars, renderVars, bootVars, body_overflow, lastOp>>

ContainerIds == {"movies-list", "tvshows-list", "anime-list"}

\* ------------------------------------------------------------ Render Layer
ImgSrc(path) == <<IMG_URL, path>>
PosterAlt(item) == <<"Poster for ", Or(item.title, item.name)>>

\* the img element displayList builds for one item; `item` is what its handlers close over
ListPoster(item) ==
  [tag |-> "img", src |-> ImgSrc(item.poster_path), alt |-> PosterAlt(item),
   class |-> "media-poster", onclick |-> "showDetails", item |-> item]

ListStepSkipNothing(children, item) == Append(children, ListPoster(item))

\* one iteration of displayList's forEach
ListStep(children, item) ==
  IF ~Truthy(item.poster_path) THEN children ELSE Append(children, ListPoster(item))

RECURSIVE ForEachList(_, _)
ForEachList(items, children) ==
  IF items = <<>> THEN children
  ELSE ForEachList(Tail(items), ListStep(children, Head(items)))

\* displayList(items, containerId) on the list containers ls
DisplayListOn(ls, items, containerId) ==
  IF containerId \notin DOMAIN ls THEN ls
  ELSE [ls EXCEPT ![containerId] = ForEachList(items, <<>>)]

PassedOn(ps, items, containerId) ==
  IF containerId \notin DOMAIN ps THEN ps ELSE [ps EXCEPT ![containerId] = Present(items)]

ListInputs == Arrays({M1, M2, T1}, MaxListLen)

DisplayList(items, containerId) ==
  /\ lists' = DisplayListOn(lists, items, containerId)
  /\ passed' = PassedOn(passed, items, containerId)
  /\ lastOp' = "displayList"
  /\ UNCHANGED <<modalVars, searchVars, bootVars, banner, body_overflow>>

\* -------------------------------------------------------------- Fetch Layer
\* What a request can come back with: a transport failure (fetch rejects), a
\* non-success HTTP status, or a success whose JSON has or lacks a results array.
NetError == [net |-> FALSE, ok |-> FALSE, results |-> Absent]
HttpError == [net |-> TRUE, ok |-> FALSE, results |-> Absent]
OkNoResults == [net |-> TRUE, ok |-> TRUE, results |-> Absent]
Ok(rs) == [net |-> TRUE, ok |-> TRUE, results |-> Present(rs)]
Failures == {NetError, HttpError, OkNoResults}

TrendingURL(type) == <<BASE_URL, "/trending/", type, "/week?api_key=", KEY>>
AnimeURL(p) == <<BASE_URL, "/trending/tv/week?api_key=", KEY, "&page=", ToString(p)>>

Fulfilled(v) == [status |-> "fulfilled", value |-> v]
Rejected == [status |-> "rejected", value |-> <<>>]
Pending == [status |-> "pending", value |-> <<>>]

\* the try block of fetchTrending: what it throws or returns
FetchTrendingTry(resp) ==
  IF ~resp.net THEN [threw |-> TRUE, value |-> <<>>]
  ELSE IF ~resp.ok THEN [threw |-> TRUE, value |-> <<>>]
  ELSE [threw |-> FALSE,
        value |-> IF resp.results = Absent THEN <<>> ELSE resp.results[1]]

FetchTrendingNoCatch(resp) ==
  LET r == FetchTrendingTry(resp) IN IF r.threw THEN Rejected ELSE Fulfilled(r.value)

\* fetchTrending's promise once its response is in: the catch returns []
FetchTrendingSettled(resp) ==
  LET r == FetchTrendingTry(resp) IN IF r.threw THEN Fulfilled(<<>>) ELSE Fulfilled(r.value)

\* genre_ids.includes(id)
RECURSIVE Includes(_, _)
Includes(arr, x) ==
  IF arr = <<>> THEN FALSE ELSE IF Head(arr) = x THEN TRUE ELSE Includes(Tail(arr), x)

AnimeKeepLanguageOnly(item) == item.original_language = "ja"

\* the predicate of fetchTrendingAnime's filter
AnimeKeep(item) ==
  /\ item.original_language = "ja"
  /\ item.genre_ids # Absent
  /\ Includes(item.genre_ids[1], ANIME_GENRE_ID)

RECURSIVE Filter(_, _)
Filter(arr, acc) ==
  IF arr = <<>> THEN acc
  ELSE Filter(Tail(arr), IF AnimeKeep(Head(arr)) THEN Append(acc, Head(arr)) ELSE acc)

\* one iteration of fetchTrendingAnime's loop body: the new allResults
AnimePageBody(all, resp) ==
  IF ~resp.net THEN all                 \* fetch throws, caught
  ELSE IF ~resp.ok THEN all             \* throw new Error, caught
  ELSE IF resp.results = Absent THEN all \* TypeError on data.results.filter, caught
  ELSE all \o Filter(resp.results[1], <<>>)

\* the loop condition after page p's iteration
AnimeContinues(p, resp) == p + 1 <= MAX_PAGES

\* init calls fetchTrending('movie'), fetchTrending('tv'), fetchTrendingAnime(): each runs
\* to its first await, so three requests are out before init suspends at Promise.all
InitStart ==
  /\ pc = "start"
  /\ pc' = "await"
  /\ promises' = [p \in DOMAIN promises |-> Pending]
  /\ page' = 1
  /\ allResults' = <<>>
  /\ requests' = <<TrendingURL("movie"), TrendingURL("tv"), AnimeURL(1)>>
  /\ lastOp' = "init"
  /\ UNCHANGED <<modalVars, searchVars, renderVars, handlers, responses, pageResponses,
                 body_overflow>>

\* the response to fetchTrending(type) arrives
FetchTrendingSettles(type, resp) ==
  /\ promises[type].status = "pending"
  /\ promises' = [promises EXCEPT ![type] = FetchTrendingSettled(resp)]
  /\ responses' = [responses EXCEPT ![type] = Present(resp)]
  /\ lastOp' = "fetchTrending"
  /\ UNCHANGED <<modalVars, searchVars, renderVars, handlers, pc, page, allResults,
                 requests, pageResponses, body_overflow>>

\* the response to fetchTrendingAnime's outstanding page arrives: the rest of that
\* iteration, then either the next page's request or the return
AnimePageSettles(resp) ==
  /\ promises["anime"].status = "pending"
  /\ LET all == AnimePageBody(allResults, resp) IN
       /\ allResults' = all
       /\ pageResponses' = Append(pageResponses, resp)
       /\ page' = page + 1
       /\ IF AnimeContinues(page, resp)
          THEN /\ requests' = Append(requests, AnimeURL(page + 1))
               /\ UNCHANGED promises
          ELSE /\ promises' = [promises EXCEPT !["anime"] = Fulfilled(all)]
               /\ UNCHANGED requests
  /\ lastOp' = "fetchTrendingAnime"
  /\ UNCHANGED <<modalVars, searchVars, renderVars, handlers, pc, responses, body_overflow>>

\* displayBanner(item) on the banner b
DisplayBanner(b, item) ==
  IF item # NoItem /\ Truthy(item.backdrop_path)
  THEN [backgroundImage |-> <<"url(", IMG_URL, item.backdrop_path, ")">>,
        title |-> Or(item.title, Or(item.name, ""))]
  ELSE b

HandlerNames == {"closeModal", "changeServer", "openSearchModal", "closeSearchModal",
                 "searchTMDB"}

JoinAny(ps) == \E p \in DOMAIN ps : ps[p].status = "fulfilled"

\* Promise.all fulfils once every promise has
JoinAll(ps) == \A p \in DOMAIN ps : ps[p].status = "fulfilled"

\* the three displayList calls of init
RenderLists(ls, movies, tvShows, anime) ==
  DisplayListOn(DisplayListOn(DisplayListOn(ls, movies, "movies-list"),
                              tvShows, "tvshows-list"), anime, "anime-list")

\* init resumes after the await: with a rejection (nothing below the await runs), or
\* with the three arrays
InitResume ==
  /\ pc = "await"
  /\ \/ /\ \E p \in DOMAIN promises : promises[p].status = "rejected"
        /\ pc' = "rejected"
        /\ UNCHANGED <<renderVars, handlers>>
     \/ /\ JoinAll(promises)
        /\ LET movies == promises["movie"].value
               tvShows == promises["tv"].value
               anime == promises["anime"].value
           IN /\ IF Len(movies) > 0
                 THEN \E i \in 1..Len(movies) : banner' = DisplayBanner(banner, movies[i])
                 ELSE UNCHANGED banner
              /\ lists' = RenderLists(lists, movies, tvShows, anime)
              /\ passed' = PassedOn(PassedOn(PassedOn(passed, movies, "movies-list"),
                                             tvShows, "tvshows-list"), anime, "anime-list")
        /\ handlers' = HandlerNames
        /\ pc' = "done"
  /\ lastOp' = "init"
  /\ UNCHANGED <<modalVars, searchVars, promises, page, allResults, requests, responses,
                 pageResponses, body_overflow>>

\* --------------------------------------------------------- Modal Controller
RECURSIVE Repeat(_, _)
Repeat(glyph, n) == IF n <= 0 THEN <<>> ELSE <<glyph>> \o Repeat(glyph, n - 1)

\* renderRating(voteAverage), for a whole-number vote: Math.round(v / 2) rounds halves up
RenderRating(voteAverage) ==
  LET ratingOutOfFive == (voteAverage + 1) \div 2
  IN Repeat("filled-star", ratingOutOfFive) \o Repeat("empty-star", 5 - ratingOutOfFive)

EmbedTypeByMediaTypeOnly(item) == IF item.media_type = "movie" THEN "movie" ELSE "tv"

\* const type = (currentItem.media_type === "movie" || currentItem.title) ? "movie" : "tv"
EmbedType(item) == IF item.media_type = "movie" \/ Truthy(item.title) THEN "movie" ELSE "tv"

\* the embed URL changeServer builds, "" for a value that is none of the three
EmbedURL(server, type, id) ==
  IF server = "vidsrc.cc"
  THEN <<"https://", "vidsrc.cc", "/v2/embed/", type, "/", ToString(id)>>
  ELSE IF server = "vidsrc.net"
  THEN <<"https://", "vidsrc.net", "/embed/", type, "/?tmdb=", ToString(id)>>
  ELSE IF server = "player.videasy.net"
  THEN <<"https://", "player.videasy.net", "/", type, "/", ToString(id)>>
  ELSE <<>>

\* changeServer() with the selection item and the select at server: the frame's new src
ChangeServerOn(item, server, src) ==
  IF item = NoItem THEN src ELSE EmbedURL(server, EmbedType(item), item.id)

\* the values the #server select can hold: the three providers, and the one the code's
\* comment says an option was corrected from
ServerValues == {"vidsrc.cc", "vidsrc.net", "player.videasy.net", "vidsrc.me"}

\* showDetails(item), the part on the modal
ShowDetailsOn(item) ==
  /\ currentItem' = item
  /\ modal_title' = Or(item.title, item.name)
  /\ modal_description' = Or(item.overview, "No description available.")
  /\ modal_image' = [src |-> ImgSrc(item.poster_path), alt |-> PosterAlt(item)]
  /\ modal_rating' = RenderRating(item.vote_average)
  /\ server_value' = "vidsrc.cc"
  /\ modal_video_src' = ChangeServerOn(item, "vidsrc.cc", modal_video_src)
  /\ modal_display' = "flex"
  /\ body_overflow' = "hidden"

\* a click, Enter or Space on a poster of a list: showDetails(item)
ClickListPoster(c, i) ==
  /\ ShowDetailsOn(lists[c][i].item)
  /\ lastOp' = "showDetails"
  /\ UNCHANGED <<searchVars, renderVars, bootVars>>

\* the user picks an option of the #server select
PickServer(s) ==
  /\ server_value # s
  /\ server_value' = s
  /\ lastOp' = "pick"
  /\ UNCHANGED <<currentItem, modal_display, modal_title, modal_description, modal_image,
                 modal_rating, modal_video_src, searchVars, renderVars, bootVars,
                 body_overflow>>

ChangeServer ==
  /\ modal_video_src' = ChangeServerOn(currentItem, server_value, modal_video_src)
  /\ lastOp' = "changeServer"
  /\ UNCHANGED <<currentItem, modal_display, modal_title, modal_description, modal_image,
                 modal_rating, server_value, searchVars, renderVars, bootVars,
                 body_overflow>>

CloseModal ==
  /\ modal_display' = "none"
  /\ modal_video_src' = <<>>
  /\ body_overflow' = "auto"
  /\ lastOp' = "closeModal"
  /\ UNCHANGED <<currentItem, modal_title, modal_description, modal_image, modal_rating,
                 server_value, searchVars, renderVars, bootVars>>

\* -------------------------------------------------------- Search Controller
Chars == {" ", "a"}

RECURSIVE TrimStart(_)
TrimStart(s) == IF s # <<>> /\ Head(s) = " " THEN TrimStart(Tail(s)) ELSE s

RECURSIVE TrimEnd(_)
TrimEnd(s) == IF s # <<>> /\ s[Len(s)] = " " THEN TrimEnd(SubSeq(s, 1, Len(s) - 1)) ELSE s

\* String.prototype.trim
Trim(s) == TrimEnd(TrimStart(s))

\* encodeURIComponent, on the characters typed
RECURSIVE EncodeURIComponent(_)
EncodeURIComponent(s) ==
  IF s = <<>> THEN <<>>
  ELSE (IF Head(s) = " " THEN <<"%20">> ELSE <<Head(s)>>) \o EncodeURIComponent(Tail(s))

SearchURL(query) ==
  <<BASE_URL, "/search/multi?api_key=", KEY, "&query=", EncodeURIComponent(query)>>

NoResultsMessage ==
  [tag |-> "p", class |-> "no-results-message",
   text |-> "No results found. Try a different search term."]
ErrorMessage ==
  [tag |-> "p", class |-> "error-message",
   text |-> "Could not perform search. Please try again."]

\* the img element searchTMDB builds for one result
SearchPoster(item) ==
  [tag |-> "img", src |-> ImgSrc(item.poster_path), alt |-> PosterAlt(item),
   class |-> "media-poster", onclick |-> "closeSearchModal, showDetails", item |-> item]

\* the early return of searchTMDB's forEach
SearchSkips(item) ==
  \/ item.media_type = "person"
  \/ (~Truthy(item.poster_path) /\ ~Truthy(item.backdrop_path))
  \/ (~Truthy(item.title) /\ ~Truthy(item.name))

RECURSIVE ForEachResult(_, _)
ForEachResult(results, children) ==
  IF results = <<>> THEN children
  ELSE ForEachResult(Tail(results),
                     IF SearchSkips(Head(results)) THEN children
                     ELSE Append(children, SearchPoster(Head(results))))

\* searchTMDB after its await, on the container as it is when the response arrives
SearchRender(children, resp) ==
  IF ~resp.net THEN <<ErrorMessage>>                   \* fetch throws
  ELSE IF ~resp.ok THEN <<ErrorMessage>>               \* throw new Error
  ELSE IF resp.results = Absent THEN <<ErrorMessage>>  \* TypeError on data.results.forEach
  ELSE LET after == ForEachResult(resp.results[1], children)
       IN IF Len(after) = 0 THEN <<NoResultsMessage>> ELSE after

SearchStartsAfterCheck(input, children) ==
  IF Trim(input) = <<>> THEN [children |-> children, sends |-> FALSE]
  ELSE [children |-> <<>>, sends |-> TRUE]

\* searchTMDB up to its await: the container it leaves and whether it sends a request
SearchStarts(input, children) ==
  [children |-> <<>>, sends |-> Trim(input) # <<>>]

\* the search service: what TMDB holds for a query
Catalog(query) ==
  IF Len(query) = 1 THEN <<M1, P1, T5>>
  ELSE IF Len(query) = 2 THEN <<P1, X1, X2>>
  ELSE IF Len(query) = 3 THEN <<T1>>
  ELSE <<>>

SearchResponses(query) == {Ok(Catalog(query))} \cup Failures

OpenSearchModal ==
  /\ search_modal_display' = "flex"
  /\ body_overflow' = "hidden"
  /\ lastOp' = "openSearchModal"
  /\ UNCHANGED <<modalVars, search_input, search_results, inflight, lastQuery, renderVars,
                 bootVars>>

CloseSearchModalOn ==
  /\ search_modal_display' = "none"
  /\ search_results' = <<>>
  /\ search_input' = <<>>

CloseSearchModal ==
  /\ CloseSearchModalOn
  /\ body_overflow' = "auto"
  /\ lastOp' = "closeSearchModal"
  /\ UNCHANGED <<modalVars, inflight, lastQuery, renderVars, bootVars>>

\* the user types a character into the search field, which the overlay shows
TypeChar(ch) ==
  /\ search_modal_display = "flex"
  /\ Len(search_input) < MaxQueryLen
  /\ search_input' = Append(search_input, ch)
  /\ lastOp' = "type"
  /\ UNCHANGED <<modalVars, search_modal_display, search_results, inflight, lastQuery,
                 renderVars, bootVars, body_overflow>>

\* the user deletes the last character of the search field
DeleteChar ==
  /\ search_modal_display = "flex"
  /\ search_input # <<>>
  /\ search_input' = SubSeq(search_input, 1, Len(search_input) - 1)
  /\ lastOp' = "type"
  /\ UNCHANGED <<modalVars, search_modal_display, search_results, inflight, lastQuery,
                 renderVars, bootVars, body_overflow>>

\* searchTMDB() up to its return or its await
SearchTMDB ==
  LET start == SearchStarts(search_input, search_results) IN
    /\ start.sends => Len(inflight) < MaxInFlight
    /\ search_results' = start.children
    /\ IF start.sends
       THEN /\ inflight' = Append(inflight, [url |-> SearchURL(Trim(search_input)),
                                             query |-> Trim(search_input)])
            /\ lastQuery' = Trim(search_input)
       ELSE UNCHANGED <<inflight, lastQuery>>
    /\ lastOp' = "searchTMDB"
    /\ UNCHANGED <<modalVars, search_modal_display, search_input, renderVars, bootVars,
                   body_overflow>>

\* the response to the i-th outstanding search arrives: the rest of that searchTMDB
SearchSettles(i, resp) ==
  /\ search_results' = SearchRender(search_results, resp)
  /\ inflight' = SubSeq(inflight, 1, i - 1) \o SubSeq(inflight, i + 1, Len(inflight))
  /\ lastOp' = "searchTMDB resumed"
  /\ UNCHANGED <<modalVars, search_modal_display, search_input, lastQuery, renderVars,
                 bootVars, body_overflow>>

\* a click, Enter or Space on a poster of the shown search overlay:
\* closeSearchModal(); showDetails(item)
ClickSearchPoster(i) ==
  /\ search_modal_display = "flex"
  /\ search_results[i].tag = "img"
  /\ CloseSearchModalOn
  /\ ShowDetailsOn(search_results[i].item)
  /\ lastOp' = "showDetails"
  /\ UNCHANGED <<inflight, lastQuery, renderVars, bootVars>>

\* ---------------------------------------------------------- initial values
InitModal ==
  /\ currentItem = NoItem
  /\ modal_display = "none"
  /\ modal_title = ""
  /\ modal_description = ""
  /\ modal_image = [src |-> <<>>, alt |-> <<>>]
  /\ modal_rating = <<>>
  /\ modal_video_src = <<>>
  /\ server_value = "vidsrc.cc"

InitSearch ==
  /\ search_modal_display = "none"
  /\ search_input = <<>>
  /\ search_results = <<>>
  /\ inflight = <<>>
  /\ lastQuery = <<>>

InitRender ==
  /\ lists = [c \in ContainerIds |-> <<>>]
  /\ banner = [backgroundImage |-> <<>>, title |-> ""]
  /\ passed = [c \in ContainerIds |-> Absent]

InitBoot ==
  /\ handlers = {}
  /\ pc = "start"
  /\ promises = [p \in {"movie", "tv", "anime"} |-> [status |-> "unstarted", value |-> <<>>]]
  /\ page = 1
  /\ allResults = <<>>
  /\ requests = <<>>
  /\ responses = [t \in {"movie", "tv"} |-> Absent]
  /\ pageResponses = <<>>

InitPage ==
  /\ InitModal /\ InitSearch /\ InitRender /\ InitBoot
  /\ body_overflow = "auto"
  /\ lastOp = "load"

\* the page once init has run to its end, on a week with these trending items and
\* with the banner's random pick on the first movie
LoadedMovies == <<M1, M2, M3, M4>>
LoadedTv == <<T4>>
LoadedPages == <<Ok(<<T3, T2>>), HttpError, OkNoResults>>
LoadedAnime == <<T2>>

InitLoaded ==
  /\ InitModal /\ InitSearch
  /\ lists = RenderLists([c \in ContainerIds |-> <<>>], LoadedMovies, LoadedTv, LoadedAnime)
  /\ passed = [c \in ContainerIds |->
                 Present(CASE c = "movies-list" -> LoadedMovies
                           [] c = "tvshows-list" -> LoadedTv
                           [] OTHER -> LoadedAnime)]
  /\ banner = DisplayBanner([backgroundImage |-> <<>>, title |-> ""], LoadedMovies[1])
  /\ handlers = HandlerNames
  /\ pc = "done"
  /\ promises = [p \in {"movie", "tv", "anime"} |->
                   Fulfilled(CASE p = "movie" -> LoadedMovies
                               [] p = "tv" -> LoadedTv
                               [] OTHER -> LoadedAnime)]
  /\ page = MAX_PAGES + 1
  /\ allResults = LoadedAnime
  /\ requests = <<TrendingURL("movie"), TrendingURL("tv"), AnimeURL(1), AnimeURL(2),
                  AnimeURL(3)>>
  /\ responses = [t \in {"movie", "tv"} |->
                    Present(Ok(IF t = "movie" THEN LoadedMovies ELSE LoadedTv))]
  /\ pageResponses = LoadedPages
  /\ body_overflow = "auto"
  /\ lastOp = "init"

\* ------------------------------------------- displayList, called repeatedly
NextList == \E items \in ListInputs, c \in ContainerIds \cup {"missing-list"} :
              DisplayList(items, c)

SpecList == InitPage /\ [][NextList]_vars

HasPoster(item) == item.poster_path \notin {Null, ""}

\* C6: every existing container holds exactly one poster per item, in input order, of
\* the list most recently passed for it that has a poster path, and nothing older.
C6_ListShowsLatestPosters ==
  \A c \in ContainerIds :
    passed[c] # Absent =>
      LET items == passed[c][1]
          kept == SelectSeq(items, HasPoster) IN
        /\ Len(lists[c]) = Cardinality({i \in DOMAIN items : HasPoster(items[i])})
        /\ Len(lists[c]) = Len(kept)
        /\ \A i \in DOMAIN kept :
             /\ lists[c][i].tag = "img"
             /\ lists[c][i].item = kept[i]
             /\ lists[c][i].src = <<IMG_URL, kept[i].poster_path>>

C6_Witness ==
  /\ lastOp = "displayList"
  /\ passed["movies-list"] = Present(<<M2, T1>>)
  /\ Len(lists["movies-list"]) = 1
  /\ passed["tvshows-list"] = Present(<<M1, T1>>)
  /\ Len(lists["tvshows-list"]) = 2
\* ------------------------------------------------ fetchTrendingAnime alone
AnimePages == {Ok(rs) : rs \in Arrays({T1, T2, T3, T4, T5}, MaxPageLen)} \cup Failures

NextAnime == InitStart \/ \E resp \in AnimePages : AnimePageSettles(resp)

SpecAnime == InitPage /\ [][NextAnime]_vars

IsAnime(item) ==
  /\ item.original_language = "ja"
  /\ item.genre_ids # Absent
  /\ \E k \in DOMAIN item.genre_ids[1] : item.genre_ids[1][k] = 16

PageItems(resp) == IF resp.net /\ resp.ok /\ resp.results # Absent THEN resp.results[1] ELSE <<>>

RECURSIVE ConcatPages(_)
ConcatPages(rs) == IF rs = <<>> THEN <<>> ELSE PageItems(Head(rs)) \o ConcatPages(Tail(rs))

AnimeRequests == SelectSeq(requests, LAMBDA u : u[4] = "&page=")

\* C3: fetchTrendingAnime requests pages 1, 2, 3 one after another whatever fails, and
\* returns the "ja" items with genre 16 of the successful pages, in page order and in
\* within-page order, and nothing else.
C3_AnimeIsFilteredConcatenation ==
  /\ Len(AnimeRequests) <= 3
  /\ \A i \in DOMAIN AnimeRequests : AnimeRequests[i][5] = ToString(i)
  /\ promises["anime"].status = "pending" => Len(AnimeRequests) = Len(pageResponses) + 1
  /\ promises["anime"].status \notin {"unstarted", "pending"} =>
       /\ promises["anime"].status = "fulfilled"
       /\ Len(AnimeRequests) = 3 /\ Len(pageResponses) = 3
       /\ promises["anime"].value = SelectSeq(ConcatPages(pageResponses), IsAnime)
       /\ \A i \in DOMAIN promises["anime"].value :
            /\ promises["anime"].value[i].original_language = "ja"
            /\ 16 \in {promises["anime"].value[i].genre_ids[1][k] :
                         k \in DOMAIN promises["anime"].value[i].genre_ids[1]}

C3_Witness ==
  /\ promises["anime"].status = "fulfilled"
  /\ pageResponses = <<Ok(<<T3, T2>>), HttpError, Ok(<<T1, T4>>)>>
  /\ promises["anime"].value = <<T2, T1>>

\* --------------------------------------------------------------- bootstrap
MovieResponses == {Ok(rs) : rs \in Arrays({M1, M2}, MaxTrendLen)} \cup Failures
TvResponses == {Ok(rs) : rs \in Arrays({T1, T4}, MaxTrendLen)} \cup Failures
BootAnimePages == {Ok(rs) : rs \in Arrays({T2, T3}, MaxTrendLen)} \cup Failures

NextInit ==
  \/ InitStart
  \/ \E resp \in MovieResponses : FetchTrendingSettles("movie", resp)
  \/ \E resp \in TvResponses : FetchTrendingSettles("tv", resp)
  \/ \E resp \in BootAnimePages : AnimePageSettles(resp)
  \/ InitResume

SpecInit == InitPage /\ [][NextInit]_vars

\* children shows exactly the items of `items` that have a poster path, in order
ShowsPostersOf(children, items) ==
  LET kept == SelectSeq(items, HasPoster) IN
    /\ Len(children) = Len(kept)
    /\ \A i \in DOMAIN kept : children[i].tag = "img" /\ children[i].item = kept[i]

Succeeded(r) == r # Absent /\ r[1].net /\ r[1].ok

Dataset(r) == IF Succeeded(r) /\ r[1].results # Absent THEN r[1].results[1] ELSE <<>>

\* C2: whatever combination of the bootstrap fetches fails, init sees no rejection, and
\* each container shows the posters of its own dataset: empty for a failed fetch, and
\* the fetched items for a fetch that succeeded.
C2_FailuresAreIsolated ==
  /\ pc # "rejected"
  /\ \A p \in DOMAIN promises : promises[p].status # "rejected"
  /\ pc = "done" =>
       /\ ShowsPostersOf(lists["movies-list"], Dataset(responses["movie"]))
       /\ ShowsPostersOf(lists["tvshows-list"], Dataset(responses["tv"]))
       /\ ShowsPostersOf(lists["anime-list"], SelectSeq(ConcatPages(pageResponses), IsAnime))

C2_Witness ==
  /\ pc = "done"
  /\ responses["movie"] = Present(NetError)
  /\ lists["movies-list"] = <<>>
  /\ responses["tv"] = Present(Ok(<<T1>>))
  /\ Len(lists["tvshows-list"]) = 1
  /\ pageResponses = <<HttpError, Ok(<<T2>>), OkNoResults>>
  /\ Len(lists["anime-list"]) = 1

Untouched ==
  /\ banner = [backgroundImage |-> <<>>, title |-> ""]
  /\ \A c \in ContainerIds : lists[c] = <<>> /\ passed[c] = Absent
  /\ handlers = {}

\* C7: until all three bootstrap fetches have settled, init has touched neither the
\* banner, nor a list container, nor the global handlers.
C7_NothingBeforeJoin ==
  (\E p \in DOMAIN promises : promises[p].status \in {"unstarted", "pending"}) => Untouched

C7_Witness ==
  /\ pc = "await"
  /\ promises["movie"] = Fulfilled(<<M1>>)
  /\ promises["tv"] = Fulfilled(<<T1>>)
  /\ promises["anime"].status = "pending"
  /\ Len(pageResponses) = 2
  /\ Untouched
\* ------------------------------------------------------- the details modal
Next ==
  \/ \E c \in ContainerIds : \E i \in DOMAIN lists[c] : ClickListPoster(c, i)
  \/ \E s \in ServerValues : PickServer(s)
  \/ ChangeServer
  \/ CloseModal

Spec == InitLoaded /\ [][Next]_vars

Providers == {"vidsrc.cc", "vidsrc.net", "player.videasy.net"}

Kind(item) == IF item.media_type = "movie" \/ item.title # Null THEN "movie" ELSE "tv"

AllButVideo == <<currentItem, modal_display, modal_title, modal_description, modal_image,
                 modal_rating, server_value, searchVars, renderVars, bootVars,
                 body_overflow>>

\* C4: with an item selected and the select at one of the three providers, changeServer
\* sets the frame source to that provider's URL for the item's id and its kind, "movie" for
\* media_type "movie" or a title, else "tv" (vidsrc.cc: .../v2/embed/{kind}/{id}); with no
\* item selected it changes nothing.
C4_ChangeServerBuildsProviderURL ==
  [][ChangeServer =>
       /\ UNCHANGED AllButVideo
       /\ currentItem = NoItem => UNCHANGED modal_video_src
       /\ (currentItem # NoItem /\ server_value \in Providers) =>
            /\ Len(modal_video_src') = 6
            /\ modal_video_src'[1] = "https://"
            /\ modal_video_src'[2] = server_value
            /\ modal_video_src'[4] = Kind(currentItem)
            /\ modal_video_src'[6] = ToString(currentItem.id)
            /\ server_value = "vidsrc.cc" => modal_video_src'[3] = "/v2/embed/"
                                            /\ modal_video_src'[5] = "/"]_vars

C4_Witness ==
  /\ lastOp = "changeServer"
  /\ currentItem = M4
  /\ server_value = "vidsrc.net"
  /\ modal_video_src = <<"https://", "vidsrc.net", "/embed/", "movie", "/?tmdb=", "12">>

\* C8: whenever the details modal is hidden the video frame source is empty.
C8_NoVideoBehindClosedModal == modal_display = "none" => modal_video_src = <<>>

\* ------------------------------------------------------ the search overlay
NextSearch ==
  \/ OpenSearchModal
  \/ CloseSearchModal
  \/ \E ch \in Chars : TypeChar(ch)
  \/ DeleteChar
  \/ SearchTMDB
  \/ \E i \in DOMAIN inflight : \E resp \in SearchResponses(inflight[i].query) :
       SearchSettles(i, resp)
  \/ \E i \in DOMAIN search_results : ClickSearchPoster(i)

SpecSearch == InitLoaded /\ [][NextSearch]_vars
Blank(input) == \A k \in DOMAIN input : input[k] = " "

\* C1 as stated: searchTMDB on an empty or whitespace-only field sends no request and
\* leaves the results container as it was.
C1_BlankQueryLeavesResults ==
  [][(SearchTMDB /\ Blank(search_input)) =>
       (inflight' = inflight /\ search_results' = search_results)]_vars

\* C1 as amended: searchTMDB on an empty or whitespace-only field sends no request and
\* leaves the results container empty.
C1_BlankQueryClearsResults ==
  [][(SearchTMDB /\ Blank(search_input)) =>
       (inflight' = inflight /\ search_results' = <<>>)]_vars

C1_Witness ==
  /\ lastOp = "searchTMDB"
  /\ search_input = <<" ">>
  /\ search_results = <<>>
  /\ Len(inflight) = 1

Survives(item) ==
  /\ item.media_type # "person"
  /\ (item.poster_path # Null \/ item.backdrop_path # Null)
  /\ (item.title # Null \/ item.name # Null)

\* C5: when a searchTMDB with a non-empty query completes, the container holds exactly the
\* no-results message if the request succeeded and nothing survives the filter, exactly
\* the error message if the request failed, and otherwise one poster per surviving result
\* in response order and no message.
C5_SearchShowsResultOrMessage ==
  [][\A i \in DOMAIN inflight : \A resp \in SearchResponses(inflight[i].query) :
       (SearchSettles(i, resp) /\ resp # OkNoResults) =>
         IF ~resp.net \/ ~resp.ok
         THEN /\ Len(search_results') = 1
              /\ search_results'[1].tag = "p"
              /\ search_results'[1].text = "Could not perform search. Please try again."
         ELSE LET kept == SelectSeq(resp.results[1], Survives) IN
                IF kept = <<>>
                THEN /\ Len(search_results') = 1
                     /\ search_results'[1].tag = "p"
                     /\ search_results'[1].text =
                          "No results found. Try a different search term."
                ELSE /\ Len(search_results') = Len(kept)
                     /\ \A k \in DOMAIN kept :
                          /\ search_results'[k].tag = "img"
                          /\ search_results'[k].item = kept[k]]_vars

\* C9: once every search has completed, the container holds only the rendering of the
\* most recently issued query.
C9_OnlyLatestQueryShown ==
  (inflight = <<>> /\ lastQuery # <<>>) =>
    \/ search_results = <<>>
    \/ \E resp \in SearchResponses(lastQuery) : search_results = SearchRender(<<>>, resp)

\* C10: a response that arrives after closeSearchModal leaves the results container
\* empty and the overlay hidden.
C10_NoLateRenderIntoClosedOverlay ==
  [][\A i \in DOMAIN inflight : \A resp \in SearchResponses(inflight[i].query) :
       (SearchSettles(i, resp) /\ search_modal_display = "none") =>
         (search_results' = <<>> /\ search_modal_display' = "none")]_vars
====
